---- MODULE Spec2Model ----
(***************************************************************************)
(* Model of the mavros SetpointTrajectoryPlugin                            *)
(* (src/mavros/src/plugins/setpoint_trajectory.cpp).                       *)
(*                                                                         *)
(* The plugin keeps the last trajectory it was given (a shared pointer,    *)
(* null when there is none) and the time it was given at.  local_cb        *)
(* stores a trajectory and publishes a preview path; reference_cb, run by  *)
(* a timer, scans the stored waypoints and sends one setpoint for the      *)
(* first waypoint whose time_from_start is not before the elapsed time.    *)
(*                                                                         *)
(* src/unnamed/part_000 is an earlier evolution of the same plugin: it     *)
(* keeps the trajectory by value, never resets it, and publishes no path.  *)
(* Its state and callbacks carry the suffix _000; both evolutions are      *)
(* given the same messages and run their timer callbacks at the same       *)
(* clock values, so that what they send can be compared.                   *)
(*                                                                         *)
(* ros::Time and ros::Duration are pairs (sec, nsec) with 0 <= nsec < 1e9. *)
(* toSec() returns sec + 1e-9 * nsec as a double; the model keeps that     *)
(* value in units of 1e-9 s, which is exact for the durations modelled     *)
(* (a double holds every multiple of 1 ns below 2^53 ns).                  *)
(***************************************************************************)
EXTENDS Integers, Sequences, FiniteSets, TLC

\* ------------------------------------------------------------------ bounds
\* The clock takes the values 0, 1, .., MaxNow half seconds.
MaxNow == 3
\* The coordinates of the vectors converted alone are -MaxCoord..MaxCoord.
MaxCoord == 2
\* local_cb runs at most MaxIngests times when callbacks run on threads.
MaxIngests == 2
\* A trajectory message carries at most MaxPoints waypoints.
MaxPoints == 2

\* ------------------------------------------------------- ros::Time, Duration
\* Normalised (sec, nsec) pair of a signed count of nanoseconds
\* (ros::DurationBase::fromNSec / normalizeSecNSecSigned).
fromNSec(t) == [sec |-> t \div 1000000000, nsec |-> t % 1000000000]

\* ros::TimeBase::toNSec(): sec * 1e9 + nsec.
toNSec(t) == t.sec * 1000000000 + t.nsec

\* ros::DurationBase::toSec(): double(sec) + 1e-9 * double(nsec),
\* kept here in units of 1e-9 s.
toSec(d) == d.sec * 1000000000 + d.nsec

\* ros::Time - ros::Time, a normalised ros::Duration.
TimeMinus(a, b) ==
    LET s == a.sec - b.sec
        n == a.nsec - b.nsec
    IN  IF n < 0 THEN [sec |-> s - 1, nsec |-> n + 1000000000]
                 ELSE [sec |-> s, nsec |-> n]

\* The values ros::Time::now() takes in the model: half seconds.
ClockValue(k) == fromNSec(k * 500000000)

\* ----------------------------------------------------------- message values
\* geometry_msgs::Transform values carried by the modelled waypoints;
\* rotation is a pure yaw, counted in quarter turns.
TfA == [translation |-> <<1, 2, 3>>, rotation |-> 1]
TfB == [translation |-> <<4, 5, 6>>, rotation |-> 2]
TwV == [linear |-> <<7, 8, 9>>]
TwA == [linear |-> <<10, 11, 12>>]

\* trajectory_msgs::MultiDOFJointTrajectoryPoint values of the model: each
\* of transforms, velocities and accelerations is empty in one waypoint and
\* filled in another, and time_from_start is 0 s, 0.5 s or 1 s.
Waypoints ==
    { [time_from_start |-> fromNSec(0),
       transforms |-> <<TfA>>, velocities |-> <<TwV>>, accelerations |-> <<TwA>>],
      [time_from_start |-> fromNSec(500000000),
       transforms |-> <<TfB>>, velocities |-> <<TwV>>, accelerations |-> <<>>],
      [time_from_start |-> fromNSec(1000000000),
       transforms |-> <<>>, velocities |-> <<>>, accelerations |-> <<TwA>>] }

PointSeqs == UNION { [1..n -> Waypoints] : n \in 0..MaxPoints }

\* header.stamp of the modelled messages: 1.999999 ms and 1000.5 ms.
Stamps == { fromNSec(1999999), fromNSec(1000500000) }

\* trajectory_msgs::MultiDOFJointTrajectory
Trajectories == { [header |-> [stamp |-> st], points |-> ps]
                  : st \in Stamps, ps \in PointSeqs }

\* POSITION_TARGET_TYPEMASK bits, a mask being the set of its bits.
X_IGNORE == "X_IGNORE"
Y_IGNORE == "Y_IGNORE"
Z_IGNORE == "Z_IGNORE"
VX_IGNORE == "VX_IGNORE"
VY_IGNORE == "VY_IGNORE"
VZ_IGNORE == "VZ_IGNORE"
AX_IGNORE == "AX_IGNORE"
AY_IGNORE == "AY_IGNORE"
AZ_IGNORE == "AZ_IGNORE"
YAW_IGNORE == "YAW_IGNORE"
YAW_RATE_IGNORE == "YAW_RATE_IGNORE"

\* What the locals of reference_cb's loop body hold before they are
\* assigned: position, velocity, af, attitude and type_mask are declared
\* without an initialiser.
Uninitialised ==
    [position : {<<0, 0, 0>>, <<20, 21, 22>>},
     velocity : {<<0, 0, 0>>},
     af : {<<0, 0, 0>>, <<23, 24, 25>>},
     attitude : {0, 3},
     type_mask : {{}, {VX_IGNORE, YAW_IGNORE}}]

\* A default-constructed trajectory_msgs::MultiDOFJointTrajectory.
EmptyMessage == [header |-> [stamp |-> fromNSec(0)], points |-> <<>>]

\* The frame_id parameter, "map" unless configured.
frame_id == "map"

\* -------------------------------------------------------------------- state
VARIABLES
    now,                    \* what ros::Time::now() returns
    trajectory_target_msg,  \* <<>> for a null pointer, <<msg>> otherwise
    refstart_time,          \* ros::Time
    op,                     \* the callback that ran last
    path,                   \* the way the last callback left
    curr_time_from_start,   \* reference_cb's local, when it computed one
    type_mask,              \* reference_cb's local at the call that sends
    sent,                   \* setpoints sent by the last callback
    disp,                   \* indices of the waypoints they were sent for
    desired,                \* paths published by the last callback
    trajectory_target_msg_000,  \* part_000: the message, kept by value
    refstart_time_000,          \* part_000: ros::Time
    type_mask_000,              \* part_000: reference_cb's local at the send
    sent_000,                   \* part_000: setpoints sent by the last callback
    disp_000,                   \* part_000: indices of their waypoints
    accepted,               \* <<>>, or the last local_cb: its message, its
                            \* time, and whether it replaced a trajectory
                            \* stored at another time
    cursor,                 \* index dispatched by the previous tick of the
                            \* stored trajectory, 0 when there was none
    ingest_pc,              \* where local_cb is, when callbacks run on threads
    ingest_req,             \* <<req>> while local_cb runs, <<>> otherwise
    tick_pc,                \* where reference_cb is, when callbacks run on
                            \* threads
    tick_elapsed,           \* its curr_time_from_start
    tick_msg,               \* <<msg>> it iterates over, <<>> otherwise
    gen,                    \* [msg, time]: the number of the local_cb that
                            \* last wrote trajectory_target_msg, refstart_time
    tick_gen,               \* [msg, time]: the same for what the running
                            \* reference_cb has read
    frame_in,               \* a vector handed to the frame conversion
    frame_out,              \* what the conversions applied so far made of it
    frame_n                 \* how many conversions were applied

vars == <<now, trajectory_target_msg, refstart_time, op, path,
          curr_time_from_start, type_mask, sent, disp, desired,
          trajectory_target_msg_000, refstart_time_000, type_mask_000,
          sent_000, disp_000, accepted, cursor,
          ingest_pc, ingest_req, tick_pc, tick_elapsed, tick_msg, gen,
          tick_gen, frame_in, frame_out, frame_n>>

\* The state of the callbacks run on threads.
threadvars == <<ingest_pc, ingest_req, tick_pc, tick_elapsed, tick_msg, gen,
                tick_gen>>

\* The state of the frame conversion taken alone.
framevars == <<frame_in, frame_out, frame_n>>

\* The state of part_000.
vars_000 == <<trajectory_target_msg_000, refstart_time_000, type_mask_000,
              sent_000, disp_000>>

\* No callback is running on a thread.
ThreadsIdle ==
    /\ ingest_pc = "idle"
    /\ ingest_req = <<>>
    /\ tick_pc = "idle"
    /\ tick_elapsed = fromNSec(0)
    /\ tick_msg = <<>>
    /\ gen = [msg |-> 0, time |-> 0]
    /\ tick_gen = [msg |-> 0, time |-> 0]

\* No vector is being converted.
FrameIdle ==
    /\ frame_in = <<0, 0, 0>>
    /\ frame_out = <<0, 0, 0>>
    /\ frame_n = 0

\* The members of both plugins after construction and initialize().
Constructed ==
    /\ trajectory_target_msg = <<>>
    /\ refstart_time = fromNSec(0)
    /\ op = "initialize"
    /\ path = "none"
    /\ curr_time_from_start = fromNSec(0)
    /\ type_mask = {}
    /\ sent = <<>>
    /\ disp = <<>>
    /\ desired = <<>>
    /\ trajectory_target_msg_000 = EmptyMessage
    /\ refstart_time_000 = fromNSec(0)
    /\ type_mask_000 = {}
    /\ sent_000 = <<>>
    /\ disp_000 = <<>>
    /\ accepted = <<>>
    /\ cursor = 0

Init ==
    /\ Constructed
    /\ ThreadsIdle
    /\ FrameIdle
    /\ now \in { ClockValue(k) : k \in 0..MaxNow }

\* ------------------------------------------------------- frame conversions
\* A quarter turn about Z followed by the negation of Z.
transform_frame_enu_ned_turn(v) == <<v[2], -v[1], -v[3]>>

\* ftf::transform_frame_enu_ned on a vector: swap X and Y, negate Z.
transform_frame_enu_ned(v) == <<v[2], v[1], -v[3]>>

\* The vectors converted alone.
Vectors == (-MaxCoord..MaxCoord) \X (-MaxCoord..MaxCoord) \X (-MaxCoord..MaxCoord)

\* A vector is handed to the conversion.
InitFrame ==
    /\ Constructed
    /\ ThreadsIdle
    /\ now = ClockValue(0)
    /\ frame_in \in Vectors
    /\ frame_out = frame_in
    /\ frame_n = 0

\* The conversion is applied to its own result.
ApplyTransform ==
    /\ frame_n < 2
    /\ frame_out' = transform_frame_enu_ned(frame_out)
    /\ frame_n' = frame_n + 1
    /\ UNCHANGED <<frame_in, now, trajectory_target_msg, refstart_time, op,
                   path, curr_time_from_start, type_mask, sent, disp, desired,
                   vars_000, accepted, cursor, threadvars>>

NextFrame == ApplyTransform

SpecFrame == InitFrame /\ [][NextFrame]_vars

\* ftf::quaternion_get_yaw(transform_orientation_enu_ned(
\* transform_orientation_baselink_aircraft(q))) for a pure yaw q, in
\* quarter turns: an ENU yaw of psi is the NED yaw pi/2 - psi.
yaw_enu_ned(q) == (1 - q) % 4

\* SetPositionTargetLocalNEDMixin::set_position_target_local_ned: fills
\* a SET_POSITION_TARGET_LOCAL_NED message from its arguments, in their
\* order, and sends it.
set_position_target_local_ned(time_boot_ms, coordinate_frame, mask, p, v, af, yaw, yaw_rate) ==
    [time_boot_ms |-> time_boot_ms,
     coordinate_frame |-> coordinate_frame,
     type_mask |-> mask,
     position |-> p,
     velocity |-> v,
     af |-> af,
     yaw |-> yaw,
     yaw_rate |-> yaw_rate]

\* ------------------------------------------------------------ publish_path
\* PathPoses with a break where the source has continue: the preview ends
\* at the first point without a transform.
RECURSIVE PathPoses_break(_, _)
PathPoses_break(points, i) ==
    IF i > Len(points) THEN <<>>
    ELSE LET p == points[i] IN
         IF p.transforms = <<>>
         THEN <<>>
         ELSE <<[position |-> p.transforms[1].translation,
                 orientation |-> p.transforms[1].rotation]>>
              \o PathPoses_break(points, i + 1)

\* The loop of publish_path over req->points from index i on: one pose for
\* each point with a transform, the others skipped.
RECURSIVE PathPoses(_, _)
PathPoses(points, i) ==
    IF i > Len(points) THEN <<>>
    ELSE LET p == points[i] IN
         IF p.transforms = <<>>
         THEN PathPoses(points, i + 1)
         ELSE <<[position |-> p.transforms[1].translation,
                 orientation |-> p.transforms[1].rotation]>>
              \o PathPoses(points, i + 1)

\* The nav_msgs::Path that publish_path publishes for req.
publish_path(req) ==
    [header |-> [stamp |-> now, frame_id |-> frame_id],
     poses |-> PathPoses(req.points, 1)]

\* ---------------------------------------------------------------- local_cb
\* local_cb without the assignment of refstart_time: the new trajectory is
\* played against the old acceptance time.
local_cb_stale(req) ==
    /\ trajectory_target_msg' = <<req>>
    /\ UNCHANGED refstart_time
    /\ desired' = <<publish_path(req)>>
    /\ accepted' = <<[req |-> req, time |-> now,
                       preempted |-> trajectory_target_msg # <<>>
                                     /\ refstart_time # now]>>
    /\ op' = "local_cb"
    /\ path' = "stored"
    /\ sent' = <<>>
    /\ disp' = <<>>
    /\ type_mask' = {}
    /\ curr_time_from_start' = fromNSec(0)
    /\ UNCHANGED now

\* local_cb that drops a message without points instead of storing it.
local_cb_drop_empty(req) ==
    /\ IF req.points = <<>>
       THEN UNCHANGED <<trajectory_target_msg, refstart_time>>
       ELSE trajectory_target_msg' = <<req>> /\ refstart_time' = now
    /\ desired' = <<publish_path(req)>>
    /\ accepted' = <<[req |-> req, time |-> now,
                       preempted |-> trajectory_target_msg # <<>>
                                     /\ refstart_time # now]>>
    /\ op' = "local_cb"
    /\ path' = "stored"
    /\ sent' = <<>>
    /\ disp' = <<>>
    /\ type_mask' = {}
    /\ curr_time_from_start' = fromNSec(0)
    /\ UNCHANGED now

local_cb(req) ==
    /\ trajectory_target_msg' = <<req>>
    /\ refstart_time' = now
    /\ desired' = <<publish_path(req)>>
    /\ accepted' = <<[req |-> req, time |-> now,
                       preempted |-> trajectory_target_msg # <<>>
                                     /\ refstart_time # now]>>
    /\ op' = "local_cb"
    /\ path' = "stored"
    /\ sent' = <<>>
    /\ disp' = <<>>
    /\ type_mask' = {}
    /\ curr_time_from_start' = fromNSec(0)
    /\ UNCHANGED now

\* Due for a loop that stops at its first waypoint whatever the time.
Due_first(pt, elapsed) == toSec(pt.time_from_start) >= 0

\* ------------------------------------------------------------ reference_cb
\* Due with > where the source has >=.
Due_strict(pt, elapsed) == toSec(pt.time_from_start) > toSec(elapsed)

\* The test of line 116: the waypoint is not before the elapsed time.
Due(pt, elapsed) == toSec(pt.time_from_start) >= toSec(elapsed)

\* The mask reference_cb accumulates for pt, from the uninitialised value u.
AccumulatedMask(pt, u) ==
    LET m1 == IF pt.transforms # <<>> THEN u
              ELSE u \cup {X_IGNORE, Y_IGNORE, Z_IGNORE}
        m2 == IF pt.velocities # <<>> THEN m1
              ELSE m1 \cup {VX_IGNORE, VY_IGNORE, VZ_IGNORE}
    IN  IF pt.accelerations # <<>> THEN m2
        ELSE m2 \cup {AX_IGNORE, AY_IGNORE, AZ_IGNORE}

\* TimeBootMs taken from the clock instead of the header stamp.
TimeBootMs_now(msg) == toNSec(now) \div 1000000

\* The time reference of the setpoints of msg: header.stamp in milliseconds.
TimeBootMs(msg) == toNSec(msg.header.stamp) \div 1000000

\* The body of the loop for a due waypoint pt (lines 117-145): the setpoint
\* handed to set_position_target_local_ned.  g holds the values of the
\* uninitialised locals.
Setpoint(msg, pt, g) ==
    LET position == IF pt.transforms # <<>>
                    THEN pt.transforms[1].translation ELSE g.position
        attitude == IF pt.transforms # <<>>
                    THEN pt.transforms[1].rotation ELSE g.attitude
        velocity == IF pt.velocities # <<>>
                    THEN pt.velocities[1].linear ELSE g.velocity
        af == IF pt.accelerations # <<>>
              THEN pt.accelerations[1].linear ELSE g.af
    IN  set_position_target_local_ned(
            TimeBootMs(msg),
            1,
            {},
            transform_frame_enu_ned(position),
            transform_frame_enu_ned(velocity),
            transform_frame_enu_ned(af),
            yaw_enu_ned(attitude), 0)

\* Scan that takes the trajectory as over once its last waypoint is past.
RECURSIVE Scan_untillast(_, _, _, _)
Scan_untillast(msg, i, elapsed, g) ==
    IF i > Len(msg.points) \/ ~Due(msg.points[Len(msg.points)], elapsed)
    THEN [returned |-> FALSE, sent |-> <<>>, disp |-> <<>>, type_mask |-> {}]
    ELSE IF Due(msg.points[i], elapsed)
         THEN [returned |-> TRUE,
               sent |-> <<Setpoint(msg, msg.points[i], g)>>,
               disp |-> <<i>>,
               type_mask |-> AccumulatedMask(msg.points[i], g.type_mask)]
         ELSE Scan_untillast(msg, i + 1, elapsed, g)

\* Scan without the return after the send: every due waypoint is sent.
RECURSIVE Scan_all(_, _, _, _)
Scan_all(msg, i, elapsed, g) ==
    IF i > Len(msg.points)
    THEN [returned |-> FALSE, sent |-> <<>>, disp |-> <<>>, type_mask |-> {}]
    ELSE LET rest == Scan_all(msg, i + 1, elapsed, g) IN
         IF Due(msg.points[i], elapsed)
         THEN [returned |-> rest.returned,
               sent |-> <<Setpoint(msg, msg.points[i], g)>> \o rest.sent,
               disp |-> <<i>> \o rest.disp,
               type_mask |-> AccumulatedMask(msg.points[i], g.type_mask)]
         ELSE rest

\* The loop of reference_cb over the points of msg from index i on: it
\* returns from the callback at the first due waypoint, after sending its
\* setpoint, and falls out of the loop when there is none.
RECURSIVE Scan(_, _, _, _)
Scan(msg, i, elapsed, g) ==
    IF i > Len(msg.points)
    THEN [returned |-> FALSE, sent |-> <<>>, disp |-> <<>>, type_mask |-> {}]
    ELSE IF Due(msg.points[i], elapsed)
         THEN [returned |-> TRUE,
               sent |-> <<Setpoint(msg, msg.points[i], g)>>,
               disp |-> <<i>>,
               type_mask |-> AccumulatedMask(msg.points[i], g.type_mask)]
         ELSE Scan(msg, i + 1, elapsed, g)

\* AfterScan without the reset at the end of the trajectory.
AfterScan_keep(r) == trajectory_target_msg

\* What reference_cb does with the store once the scan is over: reset at
\* the end of the trajectory, untouched after a return from the loop.
AfterScan(r) == IF r.returned THEN trajectory_target_msg ELSE <<>>

\* NoTrajectory that restarts the playback clock while idle.
NoTrajectory_restart ==
    /\ path' = "no_trajectory"
    /\ sent' = <<>>
    /\ disp' = <<>>
    /\ type_mask' = {}
    /\ curr_time_from_start' = fromNSec(0)
    /\ refstart_time' = now
    /\ UNCHANGED trajectory_target_msg

\* The return of lines 105-106, taken when the pointer is null.
NoTrajectory ==
    /\ path' = "no_trajectory"
    /\ sent' = <<>>
    /\ disp' = <<>>
    /\ type_mask' = {}
    /\ curr_time_from_start' = fromNSec(0)
    /\ UNCHANGED <<trajectory_target_msg, refstart_time>>

\* reference_cb measuring the elapsed time from the last setpoint sent.
reference_cb_rebase(g) ==
    /\ op' = "reference_cb"
    /\ desired' = <<>>
    /\ UNCHANGED <<now, accepted>>
    /\ IF trajectory_target_msg = <<>>
       THEN NoTrajectory
       ELSE LET elapsed == TimeMinus(now, refstart_time)
                r == Scan(trajectory_target_msg[1], 1, elapsed, g)
            IN  /\ curr_time_from_start' = elapsed
                /\ sent' = r.sent
                /\ disp' = r.disp
                /\ type_mask' = r.type_mask
                /\ path' = IF r.returned THEN "dispatched" ELSE "end_of_trajectory"
                /\ trajectory_target_msg' = AfterScan(r)
                /\ refstart_time' = IF r.returned THEN now ELSE refstart_time

reference_cb(g) ==
    /\ op' = "reference_cb"
    /\ desired' = <<>>
    /\ UNCHANGED <<now, accepted>>
    /\ IF trajectory_target_msg = <<>>
       THEN NoTrajectory
       ELSE LET elapsed == TimeMinus(now, refstart_time)
                r == Scan(trajectory_target_msg[1], 1, elapsed, g)
            IN  /\ curr_time_from_start' = elapsed
                /\ sent' = r.sent
                /\ disp' = r.disp
                /\ type_mask' = r.type_mask
                /\ path' = IF r.returned THEN "dispatched" ELSE "end_of_trajectory"
                /\ trajectory_target_msg' = AfterScan(r)
                /\ UNCHANGED refstart_time

\* ---------------------------------------------------------------- part_000
\* local_cb of part_000: the message is copied and the clock read.
local_cb_000(msg) ==
    /\ trajectory_target_msg_000' = msg
    /\ refstart_time_000' = now
    /\ type_mask_000' = {}
    /\ sent_000' = <<>>
    /\ disp_000' = <<>>

\* Due_000 with a strict comparison.
Due_000_strict(pt, elapsed) == toSec(pt.time_from_start) > toSec(elapsed)

\* The test of line 132 of part_000.
Due_000(pt, elapsed) == toSec(pt.time_from_start) >= toSec(elapsed)

\* The mask part_000 accumulates for pt from the uninitialised value u:
\* each assignment is a logical or (||) of type_mask and non-zero
\* constants, which is true, that is 1, the X-ignore bit.
AccumulatedMask_000(pt, u) ==
    IF pt.transforms # <<>> /\ pt.velocities # <<>> /\ pt.accelerations # <<>>
    THEN u
    ELSE {X_IGNORE}

\* The time reference part_000 sends: header.stamp in milliseconds.
TimeBootMs_000(msg) == toNSec(msg.header.stamp) \div 1000000

\* The body of the loop of part_000 for a due waypoint pt (lines 133-159);
\* the yaw is taken from the attitude as it is.
Setpoint_000(msg, pt, g) ==
    LET position == IF pt.transforms # <<>>
                    THEN pt.transforms[1].translation ELSE g.position
        attitude == IF pt.transforms # <<>>
                    THEN pt.transforms[1].rotation ELSE g.attitude
        velocity == IF pt.velocities # <<>>
                    THEN pt.velocities[1].linear ELSE g.velocity
        af == IF pt.accelerations # <<>>
              THEN pt.accelerations[1].linear ELSE g.af
    IN  set_position_target_local_ned(
            TimeBootMs_000(msg),
            1,
            {},
            transform_frame_enu_ned(position),
            transform_frame_enu_ned(velocity),
            transform_frame_enu_ned(af),
            attitude, 0)

\* The loop of reference_cb of part_000 over the points from index i on: it
\* breaks at the first due waypoint, after sending its setpoint.
RECURSIVE Scan_000(_, _, _, _)
Scan_000(msg, i, elapsed, g) ==
    IF i > Len(msg.points)
    THEN [sent |-> <<>>, disp |-> <<>>, type_mask |-> {}]
    ELSE IF Due_000(msg.points[i], elapsed)
         THEN [sent |-> <<Setpoint_000(msg, msg.points[i], g)>>,
               disp |-> <<i>>,
               type_mask |-> AccumulatedMask_000(msg.points[i], g.type_mask)]
         ELSE Scan_000(msg, i + 1, elapsed, g)

\* reference_cb of part_000: no test for a trajectory, no reset.
reference_cb_000(g) ==
    LET r == Scan_000(trajectory_target_msg_000, 1,
                      TimeMinus(now, refstart_time_000), g)
    IN  /\ sent_000' = r.sent
        /\ disp_000' = r.disp
        /\ type_mask_000' = r.type_mask
        /\ UNCHANGED <<trajectory_target_msg_000, refstart_time_000>>

\* ------------------------------------------------------------------- clock
\* ClockAdvance for a clock that starts over after its last value.
ClockAdvance_wrap ==
    /\ now' = IF toNSec(now) < toNSec(ClockValue(MaxNow))
              THEN fromNSec(toNSec(now) + 500000000)
              ELSE fromNSec(0)
    /\ op' = "clock"
    /\ path' = "none"
    /\ sent' = <<>>
    /\ disp' = <<>>
    /\ desired' = <<>>
    /\ type_mask' = {}
    /\ curr_time_from_start' = fromNSec(0)
    /\ type_mask_000' = {}
    /\ sent_000' = <<>>
    /\ disp_000' = <<>>
    /\ UNCHANGED <<trajectory_target_msg, refstart_time, accepted,
                   trajectory_target_msg_000, refstart_time_000>>

\* Time passes: the clock moves half a second on.
ClockAdvance ==
    /\ toNSec(now) < toNSec(ClockValue(MaxNow))
    /\ now' = fromNSec(toNSec(now) + 500000000)
    /\ op' = "clock"
    /\ path' = "none"
    /\ sent' = <<>>
    /\ disp' = <<>>
    /\ desired' = <<>>
    /\ type_mask' = {}
    /\ curr_time_from_start' = fromNSec(0)
    /\ type_mask_000' = {}
    /\ sent_000' = <<>>
    /\ disp_000' = <<>>
    /\ UNCHANGED <<trajectory_target_msg, refstart_time, accepted,
                   trajectory_target_msg_000, refstart_time_000>>

\* Simulated time starts over (use_sim_time with a replayed clock): the
\* clock jumps back to zero.
ClockReset ==
    /\ toNSec(now) > 0
    /\ now' = fromNSec(0)
    /\ op' = "clock"
    /\ path' = "none"
    /\ sent' = <<>>
    /\ disp' = <<>>
    /\ desired' = <<>>
    /\ type_mask' = {}
    /\ curr_time_from_start' = fromNSec(0)
    /\ type_mask_000' = {}
    /\ sent_000' = <<>>
    /\ disp_000' = <<>>
    /\ UNCHANGED <<trajectory_target_msg, refstart_time, accepted,
                   trajectory_target_msg_000, refstart_time_000>>

\* A trajectory message arrives on the "local" topic.
Ingest == \E req \in Trajectories : local_cb(req) /\ local_cb_000(req)

\* The 10 ms timer fires.
Tick == \E g \in Uninitialised : reference_cb(g) /\ reference_cb_000(g)

\* The callbacks delivered one at a time, each run to its end.
Next ==
    \/ Ingest /\ UNCHANGED <<cursor, threadvars, framevars>>
    \/ Tick /\ UNCHANGED <<cursor, threadvars, framevars>>
    \/ ClockAdvance /\ UNCHANGED <<cursor, threadvars, framevars>>
    \/ ClockReset /\ UNCHANGED <<cursor, threadvars, framevars>>

Spec == Init /\ [][Next]_vars

\* The stored message, when there is one.
Stored == trajectory_target_msg[1]

\* ------------------------------------------- a clock that never goes back
\* The callbacks delivered one at a time under a clock that only moves on.
\* cursor follows the loop of reference_cb: the index the last tick stopped
\* at, the first index after local_cb.

\* A trajectory message arrives; a cursor would start over at its first point.
IngestForward ==
    /\ Ingest
    /\ cursor' = 1
    /\ UNCHANGED <<threadvars, framevars>>

\* The timer fires; a cursor would stay where the loop stopped.
TickForward ==
    /\ Tick
    /\ cursor' = IF trajectory_target_msg = <<>> THEN cursor
                 ELSE IF disp' # <<>> THEN disp'[1]
                 ELSE Len(Stored.points) + 1
    /\ UNCHANGED <<threadvars, framevars>>

NextForward ==
    \/ IngestForward
    \/ TickForward
    \/ ClockAdvance /\ UNCHANGED <<cursor, threadvars, framevars>>

SpecForward == Init /\ [][NextForward]_vars

\* ------------------------------------------------- the timer keeps firing
\* The callbacks delivered one at a time while the timer of line 49 keeps
\* firing and time keeps passing.  The clock of the model stops at
\* ClockValue(MaxNow), so a trajectory arrives only while the clock can
\* still pass its last time_from_start.

\* The largest time_from_start of the points of req, in nanoseconds.
Horizon(req) ==
    LET offsets == {toNSec(req.points[i].time_from_start) : i \in 1..Len(req.points)} \cup {0}
    IN  CHOOSE h \in offsets : \A o \in offsets : o <= h

IngestLive ==
    \E req \in Trajectories :
        /\ Horizon(req) < toNSec(ClockValue(MaxNow)) - toNSec(now)
        /\ local_cb(req)
        /\ local_cb_000(req)

NextLive ==
    \/ IngestLive /\ UNCHANGED <<cursor, threadvars, framevars>>
    \/ Tick /\ UNCHANGED <<cursor, threadvars, framevars>>
    \/ ClockAdvance /\ UNCHANGED <<cursor, threadvars, framevars>>

\* sp_timer fires every 10 ms, and time passes.
SpecLive ==
    /\ Init
    /\ [][NextLive]_vars
    /\ WF_vars(Tick /\ UNCHANGED <<cursor, threadvars, framevars>>)
    /\ WF_vars(ClockAdvance /\ UNCHANGED <<cursor, threadvars, framevars>>)

\* ----------------------------------------------- callbacks run on threads
\* The callbacks when the spinner runs them on separate threads: the plugin
\* takes no lock, so the statements of local_cb and reference_cb interleave.
\* One local_cb runs at a time, and one reference_cb.  part_000 and the
\* record of the last local_cb delivered alone stay as they are, and so do
\* the locals curr_time_from_start and type_mask, which no other thread sees.

\* The messages delivered to the threads: at most one waypoint, one stamp.
ThreadTrajectories ==
    {m \in Trajectories :
        Len(m.points) <= 1 /\ toNSec(m.header.stamp) = 1999999}

\* Line 98: trajectory_target_msg = req.
local_cb_store(req) ==
    /\ ingest_pc = "idle"
    /\ gen.msg < MaxIngests
    /\ trajectory_target_msg' = <<req>>
    /\ gen' = [gen EXCEPT !.msg = gen.msg + 1]
    /\ ingest_req' = <<req>>
    /\ ingest_pc' = "stored"
    /\ op' = "local_cb"
    /\ UNCHANGED <<now, refstart_time, path, curr_time_from_start, type_mask,
                   sent, disp, desired, tick_pc, tick_elapsed, tick_msg,
                   tick_gen>>

\* Line 99: refstart_time = ros::Time::now().
local_cb_time ==
    /\ ingest_pc = "stored"
    /\ refstart_time' = now
    /\ gen' = [gen EXCEPT !.time = gen.msg]
    /\ ingest_pc' = "timed"
    /\ op' = "local_cb"
    /\ UNCHANGED <<now, trajectory_target_msg, path, curr_time_from_start,
                   type_mask, sent, disp, desired, ingest_req, tick_pc,
                   tick_elapsed, tick_msg, tick_gen>>

\* Line 100: publish_path(req), and the return.
local_cb_publish ==
    /\ ingest_pc = "timed"
    /\ desired' = <<publish_path(ingest_req[1])>>
    /\ ingest_req' = <<>>
    /\ ingest_pc' = "idle"
    /\ op' = "local_cb"
    /\ UNCHANGED <<now, trajectory_target_msg, refstart_time, path,
                   curr_time_from_start, type_mask, sent, disp, gen, tick_pc,
                   tick_elapsed, tick_msg, tick_gen>>

\* Lines 105-106: the test of the pointer.
reference_cb_check ==
    /\ tick_pc = "idle"
    /\ op' = "reference_cb"
    /\ IF trajectory_target_msg = <<>>
       THEN /\ path' = "no_trajectory"
            /\ sent' = <<>>
            /\ disp' = <<>>
            /\ UNCHANGED tick_pc
       ELSE /\ tick_pc' = "checked"
            /\ UNCHANGED <<path, sent, disp>>
    /\ UNCHANGED <<now, trajectory_target_msg, refstart_time,
                   curr_time_from_start, type_mask, desired, ingest_pc,
                   ingest_req, tick_elapsed, tick_msg, gen, tick_gen>>

\* Line 109: curr_time_from_start = ros::Time::now() - refstart_time.
reference_cb_elapsed ==
    /\ tick_pc = "checked"
    /\ tick_elapsed' = TimeMinus(now, refstart_time)
    /\ tick_gen' = [tick_gen EXCEPT !.time = gen.time]
    /\ tick_pc' = "timed"
    /\ op' = "reference_cb"
    /\ UNCHANGED <<now, trajectory_target_msg, refstart_time, path,
                   curr_time_from_start, type_mask, sent, disp, desired,
                   ingest_pc, ingest_req, tick_msg, gen>>

\* Line 110: the range of the loop, the points of the message the pointer
\* holds now.
reference_cb_begin ==
    /\ tick_pc = "timed"
    /\ tick_msg' = trajectory_target_msg
    /\ tick_gen' = [tick_gen EXCEPT !.msg = gen.msg]
    /\ tick_pc' = "looping"
    /\ op' = "reference_cb"
    /\ UNCHANGED <<now, trajectory_target_msg, refstart_time, path,
                   curr_time_from_start, type_mask, sent, disp, desired,
                   ingest_pc, ingest_req, tick_elapsed, gen>>

\* The locals of lines 111-114 whose garbage can reach the vehicle.
ThreadUninitialised == {u \in Uninitialised : u.type_mask = {}}

\* What the points of the message the loop began with read as: themselves
\* while the pointer still holds that message, anything once it was freed.
Freed ==
    IF tick_pc = "looping" /\ gen.msg # tick_gen.msg
    THEN {m.points : m \in ThreadTrajectories}
    ELSE {<<>>}

\* Lines 110-148: the loop.  When local_cb replaced the message since the
\* loop began, the points iterated over belong to a message whose last
\* owner is gone: they read as any points, ps.  The header stamp of line 139
\* is read through the pointer as it is now.
reference_cb_loop(g, ps) ==
    /\ tick_pc = "looping"
    /\ LET points == IF gen.msg = tick_gen.msg THEN tick_msg[1].points ELSE ps
           msg == [header |-> Stored.header, points |-> points]
           r == Scan(msg, 1, tick_elapsed, g)
       IN  /\ sent' = r.sent
           /\ disp' = r.disp
           /\ path' = IF r.returned THEN "dispatched" ELSE "end_of_trajectory"
           /\ tick_pc' = IF r.returned THEN "idle" ELSE "falling"
           /\ tick_msg' = IF r.returned THEN <<>> ELSE tick_msg
    /\ op' = "reference_cb"
    /\ UNCHANGED <<now, trajectory_target_msg, refstart_time,
                   curr_time_from_start, type_mask, desired, ingest_pc,
                   ingest_req, tick_elapsed, gen, tick_gen>>

\* Line 149: trajectory_target_msg.reset().
reference_cb_reset ==
    /\ tick_pc = "falling"
    /\ trajectory_target_msg' = <<>>
    /\ tick_msg' = <<>>
    /\ tick_pc' = "idle"
    /\ op' = "reference_cb"
    /\ UNCHANGED <<now, refstart_time, path, curr_time_from_start, type_mask,
                   sent, disp, desired, ingest_pc, ingest_req, tick_elapsed,
                   gen, tick_gen>>

\* Time passes while the callbacks run.
ClockAdvanceThreads ==
    /\ toNSec(now) < toNSec(ClockValue(MaxNow))
    /\ now' = fromNSec(toNSec(now) + 500000000)
    /\ UNCHANGED <<trajectory_target_msg, refstart_time, op, path,
                   curr_time_from_start, type_mask, sent, disp, desired,
                   threadvars>>

NextThreads ==
    \/ (\E req \in ThreadTrajectories : local_cb_store(req))
          /\ UNCHANGED <<vars_000, accepted, cursor, framevars>>
    \/ local_cb_time /\ UNCHANGED <<vars_000, accepted, cursor, framevars>>
    \/ local_cb_publish /\ UNCHANGED <<vars_000, accepted, cursor, framevars>>
    \/ reference_cb_check /\ UNCHANGED <<vars_000, accepted, cursor, framevars>>
    \/ reference_cb_elapsed /\ UNCHANGED <<vars_000, accepted, cursor, framevars>>
    \/ reference_cb_begin /\ UNCHANGED <<vars_000, accepted, cursor, framevars>>
    \/ (\E g \in ThreadUninitialised : \E ps \in Freed :
             reference_cb_loop(g, ps))
          /\ UNCHANGED <<vars_000, accepted, cursor, framevars>>
    \/ reference_cb_reset /\ UNCHANGED <<vars_000, accepted, cursor, framevars>>
    \/ ClockAdvanceThreads /\ UNCHANGED <<vars_000, accepted, cursor, framevars>>

SpecThreads == Init /\ [][NextThreads]_vars

\* =================================================================== claims
\* The elapsed time of a callback running now, counted from the time of the
\* last local_cb.
ElapsedSinceAccepted == TimeMinus(now, accepted[1].time)

\* Duration a is at least duration b: the order of normalised (sec, nsec)
\* pairs, seconds first.
DurationGE(a, b) == a.sec > b.sec \/ (a.sec = b.sec /\ a.nsec >= b.nsec)

\* Waypoint i of points is not before the elapsed time e, by the order of
\* durations.
NotBefore(points, i, e) == DurationGE(points[i].time_from_start, e)

\* Index i is the lowest index of points whose waypoint is not before e.
FirstDue(points, i, e) ==
    /\ i \in 1..Len(points)
    /\ NotBefore(points, i, e)
    /\ \A j \in 1..(i - 1) : ~NotBefore(points, j, e)

\* C1: a tick that dispatches, at an elapsed time e since the trajectory was
\* accepted, dispatches one waypoint only, the lowest-index one whose
\* time_from_start is >= e: all waypoints before it have a time_from_start
\* < e, and equality selects.  Nothing is assumed of the order of offsets.
\* It holds of both evolutions of reference_cb.
C1_FirstDueWaypoint ==
    /\ (op = "reference_cb" /\ (sent # <<>> \/ disp # <<>>)) =>
          /\ trajectory_target_msg # <<>>
          /\ Len(disp) = 1
          /\ Len(sent) = 1
          /\ FirstDue(Stored.points, disp[1], ElapsedSinceAccepted)
    /\ (op = "reference_cb" /\ (sent_000 # <<>> \/ disp_000 # <<>>)) =>
          /\ accepted # <<>>
          /\ Len(disp_000) = 1
          /\ Len(sent_000) = 1
          /\ FirstDue(trajectory_target_msg_000.points, disp_000[1],
                      ElapsedSinceAccepted)

\* C1 witness: the second waypoint is dispatched at an elapsed time equal to
\* its offset, the first one being before it.
C1_Witness ==
    /\ op = "reference_cb"
    /\ disp = <<2>>
    /\ Stored.points[2].time_from_start = ElapsedSinceAccepted
    /\ ElapsedSinceAccepted.nsec > 0

\* C2: a tick whose scan finds every waypoint before the elapsed time sends
\* nothing and resets the store; from then on the store stays empty, and
\* ticks send nothing and change nothing, until local_cb stores a
\* trajectory again.
C2_Step ==
    /\ (op' = "reference_cb" /\ trajectory_target_msg # <<>>
        /\ \A i \in 1..Len(Stored.points) :
              ~NotBefore(Stored.points, i, TimeMinus(now, refstart_time)))
       => (sent' = <<>> /\ trajectory_target_msg' = <<>>)
    /\ (op' = "reference_cb" /\ trajectory_target_msg = <<>>)
       => (sent' = <<>> /\ UNCHANGED <<trajectory_target_msg, refstart_time>>)
    /\ (trajectory_target_msg = <<>> /\ trajectory_target_msg' # <<>>)
       => op' = "local_cb"
    /\ op' = "local_cb" => trajectory_target_msg' # <<>>

C2_ClearedUntilIngest == [][C2_Step]_vars

\* C2 witness: a tick finds the store empty after a trajectory with
\* waypoints was stored, that is after a tick reset it.
C2_Witness ==
    /\ op = "reference_cb"
    /\ path = "no_trajectory"
    /\ accepted # <<>>
    /\ accepted[1].req.points # <<>>

\* The setpoint of waypoint pt of msg wherever pt has the field: position,
\* velocity and acceleration in NED, the yaw, and the time reference.
CarriesWaypoint(sp, msg, pt) ==
    /\ pt.transforms # <<>> =>
          /\ sp.position = transform_frame_enu_ned(pt.transforms[1].translation)
          /\ sp.yaw = yaw_enu_ned(pt.transforms[1].rotation)
    /\ pt.velocities # <<>> =>
          sp.velocity = transform_frame_enu_ned(pt.velocities[1].linear)
    /\ pt.accelerations # <<>> =>
          sp.af = transform_frame_enu_ned(pt.accelerations[1].linear)

\* C3: the store holds the message of the last local_cb or nothing, it is
\* emptied by a tick at the end of the trajectory only, and a tick that
\* dispatches computes the elapsed time from the time of the last local_cb
\* and sends a waypoint of its message.
C3_Step ==
    /\ trajectory_target_msg' # <<>> =>
          (accepted' # <<>> /\ trajectory_target_msg' = <<accepted'[1].req>>)
    /\ (trajectory_target_msg # <<>> /\ trajectory_target_msg' = <<>>) =>
          (op' = "reference_cb" /\ path' = "end_of_trajectory")
    /\ (op' = "reference_cb" /\ trajectory_target_msg # <<>>) =>
          /\ curr_time_from_start' = TimeMinus(now, accepted[1].time)
          /\ \A k \in 1..Len(sent') :
                /\ disp'[k] \in 1..Len(accepted[1].req.points)
                /\ NotBefore(accepted[1].req.points, disp'[k],
                             TimeMinus(now, accepted[1].time))
                /\ CarriesWaypoint(sent'[k], accepted[1].req,
                                   accepted[1].req.points[disp'[k]])

C3_LastIngestWins == [][C3_Step]_vars

\* C3 witness: a tick dispatches a waypoint of a trajectory that replaced
\* one stored at another time.
C3_Witness ==
    /\ op = "reference_cb"
    /\ path = "dispatched"
    /\ accepted[1].preempted
    /\ accepted[1].time # fromNSec(0)

\* The waypoint that the last tick dispatched.
Dispatched == Stored.points[disp[1]]

\* All bits of the group are in mask m exactly when the field is absent.
GroupIffAbsent(m, group, field) ==
    /\ field = <<>> => group \subseteq m
    /\ field # <<>> => group \cap m = {}

\* Mask m has the ignore bits of exactly the fields waypoint pt lacks.
PresenceMask(m, pt) ==
    /\ GroupIffAbsent(m, {X_IGNORE, Y_IGNORE, Z_IGNORE}, pt.transforms)
    /\ GroupIffAbsent(m, {VX_IGNORE, VY_IGNORE, VZ_IGNORE}, pt.velocities)
    /\ GroupIffAbsent(m, {AX_IGNORE, AY_IGNORE, AZ_IGNORE}, pt.accelerations)

\* C4: the type mask of the setpoint that is sent has the X/Y/Z-ignore bits
\* exactly when the dispatched waypoint has no transform, the VX/VY/VZ-ignore
\* bits exactly when it has no velocity, and the AX/AY/AZ-ignore bits exactly
\* when it has no acceleration.  It is stated of both evolutions of reference_cb.
C4_PresenceMaskSent ==
    /\ (op = "reference_cb" /\ path = "dispatched") =>
          PresenceMask(sent[1].type_mask, Dispatched)
    /\ (op = "reference_cb" /\ sent_000 # <<>>) =>
          PresenceMask(sent_000[1].type_mask,
                       trajectory_target_msg_000.points[disp_000[1]])

\* C5: the setpoint sent for a waypoint without transforms, hence without
\* orientation, has the yaw-ignore bit in its type mask.
C5_YawIgnoredWithoutOrientation ==
    (op = "reference_cb" /\ path = "dispatched"
     /\ Dispatched.transforms = <<>>)
    => YAW_IGNORE \in sent[1].type_mask

\* ms is the header stamp of the last local_cb in whole milliseconds.
StartStampMs(ms) ==
    LET ns == toNSec(accepted[1].req.header.stamp)
    IN  /\ ms * 1000000 <= ns
        /\ ns < (ms + 1) * 1000000

\* C6: every setpoint sent carries as time reference the header stamp of the
\* message of the last local_cb in whole milliseconds, its nanoseconds
\* divided by 1,000,000 and rounded down, whatever the clock shows; the
\* setpoints sent between two local_cb so carry one time reference.
\* It holds of both evolutions of reference_cb.
C6_TimeReferenceIsStartStamp ==
    /\ \A k \in 1..Len(sent) : StartStampMs(sent[k].time_boot_ms)
    /\ \A k \in 1..Len(sent_000) : StartStampMs(sent_000[k].time_boot_ms)

\* C6 witness: a setpoint is sent while the clock shows another millisecond
\* than the header stamp, which is not a whole number of milliseconds.
C6_Witness ==
    /\ op = "reference_cb"
    /\ Len(sent) = 1
    /\ toNSec(accepted[1].req.header.stamp) % 1000000 # 0
    /\ toNSec(now) \div 1000000 # sent[1].time_boot_ms

\* Some stored waypoint is not before the elapsed time of a tick running now.
SomeDue ==
    /\ trajectory_target_msg # <<>>
    /\ \E i \in 1..Len(Stored.points) :
          NotBefore(Stored.points, i, TimeMinus(now, refstart_time))

\* C7: a tick sends at most one setpoint, and one exactly when a trajectory
\* is stored and some waypoint of it is not before the elapsed time; it ends
\* in one of three ways: one setpoint sent and the store kept, nothing sent
\* and the store reset, nothing sent and nothing changed.
C7_Step ==
    op' = "reference_cb" =>
        /\ Len(sent') <= 1
        /\ Len(sent') = 1 <=> SomeDue
        /\ path' \in {"dispatched", "end_of_trajectory", "no_trajectory"}
        /\ path' = "dispatched" =>
              (Len(sent') = 1 /\ UNCHANGED <<trajectory_target_msg, refstart_time>>)
        /\ path' = "end_of_trajectory" =>
              (sent' = <<>> /\ trajectory_target_msg # <<>>
               /\ trajectory_target_msg' = <<>> /\ UNCHANGED refstart_time)
        /\ path' = "no_trajectory" =>
              (sent' = <<>> /\ UNCHANGED <<trajectory_target_msg, refstart_time>>)

C7_OneOutcomePerTick == [][C7_Step]_vars

\* C7 witness: a tick sends one setpoint from a trajectory of which two
\* waypoints are not before the elapsed time.
C7_Witness ==
    /\ op = "reference_cb"
    /\ Len(sent) = 1
    /\ Len(Stored.points) = 2
    /\ \A i \in 1..2 : NotBefore(Stored.points, i, curr_time_from_start)

\* C8: local_cb stores a message without waypoints like any other, whether
\* or not it replaces a stored trajectory, and the tick that finds it in the
\* store sends nothing and resets the store, as at the end of a trajectory.
C8_Step ==
    /\ (op' = "local_cb" /\ accepted'[1].req.points = <<>>) =>
          trajectory_target_msg' = <<accepted'[1].req>>
    /\ (op' = "reference_cb" /\ trajectory_target_msg # <<>>
        /\ Stored.points = <<>>) =>
          /\ sent' = <<>>
          /\ path' = "end_of_trajectory"
          /\ trajectory_target_msg' = <<>>

C8_EmptyTrajectoryFinished == [][C8_Step]_vars

\* C8 witness: a tick resets the store that held a message without
\* waypoints, which had replaced a trajectory stored at another time.
C8_Witness ==
    /\ op = "reference_cb"
    /\ path = "end_of_trajectory"
    /\ sent = <<>>
    /\ accepted[1].req.points = <<>>
    /\ accepted[1].preempted

\* C9: a tick that finds no stored trajectory sends no setpoint, publishes
\* no path and leaves the store and refstart_time as they are.
C9_Step ==
    (op' = "reference_cb" /\ trajectory_target_msg = <<>>) =>
        /\ sent' = <<>>
        /\ desired' = <<>>
        /\ UNCHANGED <<trajectory_target_msg, refstart_time>>

C9_IdleTickChangesNothing == [][C9_Step]_vars

\* C9 witness: a tick found no trajectory while the clock is past
\* refstart_time, before any local_cb.
C9_Witness ==
    /\ op = "reference_cb"
    /\ path = "no_trajectory"
    /\ accepted = <<>>
    /\ now # refstart_time

\* The poses of the points that have a transform, in the order of the
\* points, position and orientation as they are in the message.
PosesOf(points) ==
    LET with == SelectSeq(points, LAMBDA p : p.transforms # <<>>)
    IN  [i \in 1..Len(with) |->
            [position |-> with[i].transforms[1].translation,
             orientation |-> with[i].transforms[1].rotation]]

\* C10: local_cb publishes one path, reference_cb none; the path has one
\* pose for each waypoint with a transform, in the order of the waypoints,
\* position and orientation copied as they are, and a waypoint without a
\* transform is left out without ending the path.
C10_PreviewPath ==
    /\ op = "local_cb" =>
          /\ Len(desired) = 1
          /\ desired[1].poses = PosesOf(accepted[1].req.points)
    /\ op = "reference_cb" => desired = <<>>

\* C10 witness: the path published for a trajectory whose first waypoint has
\* no transform and whose second has one.
C10_Witness ==
    /\ op = "local_cb"
    /\ Len(accepted[1].req.points) = 2
    /\ accepted[1].req.points[1].transforms = <<>>
    /\ accepted[1].req.points[2].transforms # <<>>
    /\ Len(desired[1].poses) = 1

\* C11: with the callbacks on threads, the trajectory that reference_cb
\* removes at line 149 is the one whose points its loop went through: no
\* local_cb stored another one since the loop began.
C11_Step ==
    (tick_pc = "falling" /\ tick_pc' = "idle") => gen.msg = tick_gen.msg

C11_ClearRemovesScannedTrajectory == [][C11_Step]_vars

\* C12: the conversion of a vector from ENU to NED is an involution: applied
\* twice to any vector of Vectors it gives the vector back.
C12_TransformIsInvolution == frame_n = 2 => frame_out = frame_in

C12_Witness ==
    /\ frame_n = 2
    /\ frame_in[1] # frame_in[2]
    /\ frame_in[3] # 0
    /\ frame_out = frame_in

\* C13: with the callbacks on threads, the refstart_time that reference_cb
\* subtracted was written by the local_cb that stored the message whose
\* points its loop goes through.
C13_Step ==
    (tick_pc = "timed" /\ tick_pc' = "looping") => tick_gen'.time = tick_gen'.msg

C13_NoHalfReplacedTrajectory == [][C13_Step]_vars

\* C14: refstart_time and the stored waypoints change only in local_cb: a
\* tick that sends a setpoint leaves the stored message and refstart_time as
\* they were, and a tick that reaches the end of the trajectory empties the
\* pointer and leaves refstart_time as it was.
C14_Step ==
    /\ refstart_time' # refstart_time => op' = "local_cb"
    /\ (trajectory_target_msg' # trajectory_target_msg
          /\ trajectory_target_msg' # <<>>) => op' = "local_cb"
    /\ (op' = "reference_cb" /\ path' = "dispatched")
          => UNCHANGED <<trajectory_target_msg, refstart_time>>
    /\ (op' = "reference_cb" /\ path' = "end_of_trajectory")
          => (trajectory_target_msg' = <<>> /\ UNCHANGED refstart_time)

C14_StoreChangesOnlyOnIngest == [][C14_Step]_vars

C14_Witness ==
    /\ op = "reference_cb"
    /\ path = "dispatched"
    /\ disp = <<2>>
    /\ trajectory_target_msg # <<>>
    /\ toNSec(now) > toNSec(refstart_time)
    /\ toNSec(refstart_time) > 0

\* time_from_start does not decrease along the points.
NonDecreasing(points) ==
    \A i \in 1..Len(points), j \in 1..Len(points) :
        i <= j => toSec(points[i].time_from_start) <= toSec(points[j].time_from_start)

\* The index at which the loop of reference_cb stops when it starts at
\* index i: <<>> when it falls out of the loop.
StopsAt(i, elapsed) ==
    Scan(Stored, i, elapsed, CHOOSE u \in Uninitialised : TRUE).disp

\* C15: under a clock that never goes back, for a stored trajectory whose
\* time_from_start values do not decrease, the index dispatched by a tick is
\* not below the index dispatched by the tick before it on the same
\* trajectory, and a loop started at that earlier index stops where the
\* loop started at the first point stops.
C15_Step ==
    (/\ op' = "reference_cb"
     /\ trajectory_target_msg # <<>>
     /\ NonDecreasing(Stored.points))
    => /\ disp' # <<>> => disp'[1] >= cursor
       /\ StopsAt(cursor, curr_time_from_start') = disp'

C15_CursorSelectsAsRescan == [][C15_Step]_vars

C15_Witness ==
    /\ op = "reference_cb"
    /\ trajectory_target_msg # <<>>
    /\ NonDecreasing(Stored.points)
    /\ disp = <<2>>
    /\ cursor = 2
    /\ toSec(curr_time_from_start) > toSec(Stored.points[1].time_from_start)
    /\ toSec(Stored.points[1].time_from_start) > 0

\* C18: under a clock that never goes back, after every tick the current
\* plugin and part_000 have both sent a setpoint or neither has, and when
\* they have it is for the same index of the trajectory.
C18_EvolutionsDispatchAlike ==
    op = "reference_cb" =>
        /\ (sent = <<>>) <=> (sent_000 = <<>>)
        /\ disp = disp_000

C18_Witness ==
    /\ op = "reference_cb"
    /\ disp = <<2>>
    /\ disp_000 = <<2>>
    /\ sent # <<>>
    /\ sent_000 # <<>>

\* C16: while the timer keeps firing and time keeps passing, once no further
\* trajectory arrives every stored trajectory is removed from the pointer,
\* and from then on no setpoint is sent.
C16_PlaybackTerminates ==
    [](trajectory_target_msg # <<>>
          => <>[](trajectory_target_msg = <<>> /\ sent = <<>>))

C16_Witness ==
    /\ op = "reference_cb"
    /\ path = "end_of_trajectory"
    /\ trajectory_target_msg = <<>>
    /\ accepted # <<>>
    /\ Len(accepted[1].req.points) = 2
    /\ sent = <<>>

\* time_from_start of waypoint i of the stored message, as toSec gives it.
Offset(i) == toSec(Stored.points[i].time_from_start)

\* C17: whatever the order of the time_from_start values, a tick at an
\* elapsed time >= 0 never dispatches a waypoint whose time_from_start is
\* <= that of a waypoint before it, and reaches the end of the trajectory,
\* emptying the pointer, only when the elapsed time is above every
\* time_from_start of the trajectory.
C17_Step ==
    (/\ op' = "reference_cb"
     /\ trajectory_target_msg # <<>>
     /\ toSec(curr_time_from_start') >= 0)
    => /\ disp' # <<>> =>
             \A j \in 1..(disp'[1] - 1) : Offset(j) < Offset(disp'[1])
       /\ trajectory_target_msg' = <<>> =>
             \A j \in 1..Len(Stored.points) :
                 toSec(curr_time_from_start') > Offset(j)

C17_UnsortedOffsets == [][C17_Step]_vars

C17_Witness ==
    /\ op = "reference_cb"
    /\ trajectory_target_msg # <<>>
    /\ Len(Stored.points) = 2
    /\ Offset(2) < Offset(1)
    /\ toSec(curr_time_from_start) > Offset(2)
    /\ disp = <<1>>

\* The ignore bits of the fields waypoint pt lacks, and no other bit.
ExactMask(pt) ==
    (IF pt.transforms = <<>> THEN {X_IGNORE, Y_IGNORE, Z_IGNORE} ELSE {})
    \cup (IF pt.velocities = <<>> THEN {VX_IGNORE, VY_IGNORE, VZ_IGNORE} ELSE {})
    \cup (IF pt.accelerations = <<>> THEN {AX_IGNORE, AY_IGNORE, AZ_IGNORE} ELSE {})

\* C19: the type_mask that reference_cb accumulates for the waypoint it
\* dispatches is the union of the ignore bits of the fields the waypoint
\* lacks, the AX/AY/AZ-ignore bits for a missing acceleration, and nothing
\* else: it starts from zero, whatever the ticks and iterations before.  It
\* is stated of both evolutions of reference_cb.
C19_AccumulatedMaskExact ==
    /\ (op = "reference_cb" /\ path = "dispatched") =>
          type_mask = ExactMask(Dispatched)
    /\ (op = "reference_cb" /\ sent_000 # <<>>) =>
          type_mask_000 = ExactMask(trajectory_target_msg_000.points[disp_000[1]])

====
